---- MODULE Spec2Model ----
(***************************************************************************)
(* URL shortener (Go, AWS Lambda Function URL + DynamoDB).                 *)
(*                                                                         *)
(* The model follows pkg/handler/handler.go (ShortenURL, RedirectURL,      *)
(* GetURLStats), the package-level store functions of                      *)
(* pkg/database/dynamodb.go (GetClient, CreateURL, GetURL,                 *)
(* IncrementClickCount), pkg/utils/utils.go (GenerateShortCode,            *)
(* CalculateExpirationTime) and the table definition of the CloudFormation *)
(* template (TTL on the attribute "expiration").  Further sections model   *)
(* the MockDynamoDB of pkg/database/mock_dynamodb.go, the DynamoDB adapter *)
(* of pkg/database/dynamodb.go, and pkg/monitoring with the handlers and   *)
(* the router that record metrics.                                         *)
(*                                                                         *)
(* Strings that the code takes apart (paths, short codes, short URLs) are  *)
(* sequences of tokens; opaque strings (URLs, host names, messages) are    *)
(* TLA+ strings.  An error value is the sequence of the fragments of its   *)
(* message; the nil error is the empty sequence.                           *)
(***************************************************************************)
EXTENDS Integers, Sequences, FiniteSets, Bags, TLC

VARIABLES
    table,      \* the DynamoDB table: key (short code) -> stored attribute map
    now,        \* wall clock, Unix seconds
    tasks,      \* bag of the background increment goroutines launched so far
    resp,       \* the response returned by the step just taken, if a handler ran
    last,       \* what the most recent step was (observation of the run)
    permanent,  \* codes under which a record with no expiration was ever stored
    call,       \* the most recent direct call of a function, with what it returned
    mock,       \* a MockDynamoDB and the goroutines inside its methods
    adapter     \* a DynamoDB adapter and the goroutines inside its methods

vars == <<table, now, tasks, resp, last, permanent, call, mock, adapter>>

----------------------------------------------------------------------------
(* Bounds of the model *)

MaxTasks == 2          \* background increments launched in one run
MaxTicks == 1          \* how many times the clock advances past an expiry
MaxSkew == 0           \* seconds the clock may advance inside one handler
MaxDelay == 1          \* seconds a slow ShortenURL takes between its clock readings
MaxDrift == 2          \* seconds the clock advances in a run of slow invocations
MaxDays == 2           \* largest number of days, either sign, given to CalculateExpirationTime
MaxLength == 2         \* largest code length, besides codeLength, given to GenerateShortCode
MaxThreads == 2        \* goroutines calling one store object at the same time
MaxClicks == 2         \* clickCount from which no further increment is started
MaxMonitoredTasks == 2 \* background increments launched in one run of the build with metrics

----------------------------------------------------------------------------
(* Program constants *)

codeLength == 5

charset ==
    << "a","b","c","d","e","f","g","h","i","j","k","l","m",
       "n","o","p","q","r","s","t","u","v","w","x","y","z",
       "A","B","C","D","E","F","G","H","I","J","K","L","M",
       "N","O","P","Q","R","S","T","U","V","W","X","Y","Z",
       "0","1","2","3","4","5","6","7","8","9" >>

SecondsPerDay == 86400

StatusOK == 200
StatusCreated == 201
StatusFound == 302
StatusBadRequest == 400
StatusNotFound == 404
StatusInternalServerError == 500

----------------------------------------------------------------------------
(* Generic helpers: maps, strings as token sequences, errors *)

EmptyMap == [x \in {} |-> 0]

MapPut(m, k, v) == [x \in (DOMAIN m) \cup {k} |-> IF x = k THEN v ELSE m[x]]

MapDel(m, k) == [x \in (DOMAIN m) \ {k} |-> m[x]]

HasPrefix(s, p) ==
    /\ Len(p) <= Len(s)
    /\ SubSeq(s, 1, Len(p)) = p

TrimPrefix(s, p) ==
    IF HasPrefix(s, p) THEN SubSeq(s, Len(p) + 1, Len(s)) ELSE s

NilErr == <<>>

ErrorContains(err, fragment) == \E i \in 1..Len(err) : err[i] = fragment

Slash == <<"/">>

StatsPrefix == <<"/", "s", "t", "a", "t", "s", "/">>

\* the part of a short URL after its last "/", as the integration test and
\* every HTTP client extract the code
RECURSIVE LastSegment(_)
LastSegment(s) ==
    IF s = <<>> THEN <<>>
    ELSE IF s[Len(s)] = "/" THEN <<>>
    ELSE Append(LastSegment(SubSeq(s, 1, Len(s) - 1)), s[Len(s)])

----------------------------------------------------------------------------
(* pkg/utils *)

\* faulty variant of GenerateShortCode: the last byte is lost
GenerateShortCodeShort(length, rnd) ==
    IF rnd.err # NilErr
    THEN [code |-> <<>>, err |-> rnd.err]
    ELSE [code |-> [i \in 1..(length - 1) |-> charset[(rnd.bytes[i] % Len(charset)) + 1]],
          err |-> NilErr]

\* rnd is the outcome of rand.Read: an error, or length random bytes
GenerateShortCode(length, rnd) ==
    IF rnd.err # NilErr
    THEN [code |-> <<>>, err |-> rnd.err]
    ELSE [code |-> [i \in 1..length |-> charset[(rnd.bytes[i] % Len(charset)) + 1]],
          err |-> NilErr]

\* a time.Location: the offset from UTC, in seconds, before and from a
\* transition instant (a location with no transition has the same offset
\* on both sides)
UTC == [before |-> 0, after |-> 0, transition |-> 0]

\* the process's time.Local: the Lambda execution environment runs in UTC
Local == UTC

Offset(loc, unix) == IF unix < loc.transition THEN loc.before ELSE loc.after

\* time.Date(year, month, day, hour, min, sec, 0, loc).Unix() for the wall
\* clock reading wall (seconds, counted as if in UTC): the offset in force
\* is looked up at wall, and looked up again at wall - offset when that
\* falls outside the period of the first look-up
Date(wall, loc) ==
    LET first == Offset(loc, wall)
        utc == wall - first
        samePeriod == (wall < loc.transition) = (utc < loc.transition)
        offset == IF first # 0 /\ ~samePeriod THEN Offset(loc, utc) ELSE first
    IN  wall - offset

\* t.AddDate(0, 0, days).Unix() for the instant t in loc: the date and the
\* clock of t in loc are taken apart, days are added to the day, and Date
\* puts them together again
AddDate(t, days, loc) ==
    LET wall == t + Offset(loc, t)
        day == wall \div SecondsPerDay
        clock == wall % SecondsPerDay
    IN  Date((day + days) * SecondsPerDay + clock, loc)

\* faulty variant of CalculateExpirationTime: zero days is taken as a
\* request to expire now
CalculateExpirationTimeZeroExpires(days, t, loc) ==
    IF days < 0 THEN 0 ELSE AddDate(t, days, loc)

\* faulty variant of CalculateExpirationTime: the clock of the reading is
\* dropped, the expiration falls on midnight
CalculateExpirationTimeAtMidnight(days, t, loc) ==
    IF days <= 0 THEN 0
    ELSE ((t + Offset(loc, t)) \div SecondsPerDay + days) * SecondsPerDay
             - Offset(loc, t)

\* t is the value of time.Now() read by the call, loc its location
CalculateExpirationTime(days, t, loc) ==
    IF days <= 0 THEN 0 ELSE AddDate(t, days, loc)

\* time.Now().Format(time.RFC3339): a string in that layout, which carries
\* the clock reading to the second
FormatRFC3339(t) == [layout |-> "2006-01-02T15:04:05Z07:00", seconds |-> t]

\* time.Parse(time.RFC3339, s).Unix(): the clock reading a createdAt carries
ParseRFC3339(s) == s.seconds

----------------------------------------------------------------------------
(* pkg/model and the attributevalue encoding of a URLItem *)

\* attributevalue.MarshalMap(urlItem): dynamodbav tags of model.URLItem;
\* "expiration,omitempty" drops a zero expiration from the stored item
MarshalMap(urlItem) ==
    LET always == [a \in {"shortCode", "originalURL", "createdAt", "clickCount"} |->
                      CASE a = "shortCode"   -> urlItem.ShortCode
                        [] a = "originalURL" -> urlItem.OriginalURL
                        [] a = "createdAt"   -> urlItem.CreatedAt
                        [] a = "clickCount"  -> urlItem.ClickCount]
    IN  IF urlItem.Expiration = 0
        THEN always
        ELSE MapPut(always, "expiration", urlItem.Expiration)

\* faulty variant of UnmarshalMap: the tag of OriginalURL names an attribute
\* the item does not have, so the field keeps its zero value
UnmarshalMapWrongTag(av) ==
    [ShortCode   |-> IF "shortCode" \in DOMAIN av THEN av["shortCode"] ELSE <<>>,
     OriginalURL |-> IF "original_url" \in DOMAIN av THEN av["original_url"] ELSE "",
     CreatedAt   |-> IF "createdAt" \in DOMAIN av THEN av["createdAt"] ELSE "",
     Expiration  |-> IF "expiration" \in DOMAIN av THEN av["expiration"] ELSE 0,
     ClickCount  |-> IF "clickCount" \in DOMAIN av THEN av["clickCount"] ELSE 0]

\* attributevalue.UnmarshalMap(item, &urlItem): a missing attribute leaves
\* the zero value of the field
UnmarshalMap(av) ==
    [ShortCode   |-> IF "shortCode" \in DOMAIN av THEN av["shortCode"] ELSE <<>>,
     OriginalURL |-> IF "originalURL" \in DOMAIN av THEN av["originalURL"] ELSE "",
     CreatedAt   |-> IF "createdAt" \in DOMAIN av THEN av["createdAt"] ELSE "",
     Expiration  |-> IF "expiration" \in DOMAIN av THEN av["expiration"] ELSE 0,
     ClickCount  |-> IF "clickCount" \in DOMAIN av THEN av["clickCount"] ELSE 0]

NoItem == UnmarshalMap(EmptyMap)

\* json.Unmarshal([]byte(req.Body), &shortenReq) into model.ShortenRequest;
\* a body is [valid, fields]: fields maps the JSON keys present to values
JsonUnmarshal(body) ==
    IF ~body.valid
    THEN [err |-> <<"invalid character">>, URL |-> "", ExpireInDays |-> 0]
    ELSE [err |-> NilErr,
          URL |-> IF "url" \in DOMAIN body.fields THEN body.fields["url"] ELSE "",
          ExpireInDays |-> IF "expire_in_days" \in DOMAIN body.fields
                           THEN body.fields["expire_in_days"] ELSE 0]

----------------------------------------------------------------------------
(* The DynamoDB service, as the three calls used by pkg/database see it.   *)
(* fault is the failure the backend injects into the call (NilErr: none).  *)

ValidationException == <<"operation error DynamoDB", "ValidationException">>

\* faulty variant of PutItem: an existing item keeps its clickCount (the
\* write merges into the item instead of replacing it)
PutItemMerge(tbl, av, fault) ==
    IF fault # NilErr
    THEN [err |-> fault, tbl |-> tbl]
    ELSE IF av["shortCode"] \in DOMAIN tbl
    THEN [err |-> NilErr,
          tbl |-> MapPut(tbl, av["shortCode"],
                         MapPut(av, "clickCount", tbl[av["shortCode"]]["clickCount"]))]
    ELSE [err |-> NilErr, tbl |-> MapPut(tbl, av["shortCode"], av)]

PutItem(tbl, av, fault) ==
    IF fault # NilErr
    THEN [err |-> fault, tbl |-> tbl]
    ELSE [err |-> NilErr, tbl |-> MapPut(tbl, av["shortCode"], av)]

\* a key attribute may not be the empty string
GetItem(tbl, key, fault) ==
    IF fault # NilErr THEN [err |-> fault, Item |-> EmptyMap]
    ELSE IF key = <<>> THEN [err |-> ValidationException, Item |-> EmptyMap]
    ELSE IF key \in DOMAIN tbl THEN [err |-> NilErr, Item |-> tbl[key]]
    ELSE [err |-> NilErr, Item |-> EmptyMap]

\* faulty variant of UpdateItem: "SET clickCount = :inc", an assignment in
\* place of the addition
UpdateItemAssign(tbl, key, fault) ==
    IF fault # NilErr THEN [err |-> fault, tbl |-> tbl]
    ELSE IF key = <<>> \/ key \notin DOMAIN tbl \/ "clickCount" \notin DOMAIN tbl[key]
    THEN [err |-> ValidationException, tbl |-> tbl]
    ELSE [err |-> NilErr,
          tbl |-> [tbl EXCEPT ![key] = MapPut(@, "clickCount", 1)]]

\* faulty variant of UpdateItem: a call that reports a fault has applied
\* the update all the same
UpdateItemFaultAfterWrite(tbl, key, fault) ==
    IF key = <<>> \/ key \notin DOMAIN tbl \/ "clickCount" \notin DOMAIN tbl[key]
    THEN [err |-> IF fault # NilErr THEN fault ELSE ValidationException, tbl |-> tbl]
    ELSE [err |-> fault,
          tbl |-> [tbl EXCEPT ![key] = MapPut(@, "clickCount", @["clickCount"] + 1)]]

\* UpdateExpression "SET clickCount = clickCount + :inc", :inc = 1, applied
\* atomically by the service; the expression is rejected when the item or
\* its clickCount attribute does not exist
UpdateItem(tbl, key, fault) ==
    IF fault # NilErr THEN [err |-> fault, tbl |-> tbl]
    ELSE IF key = <<>> \/ key \notin DOMAIN tbl \/ "clickCount" \notin DOMAIN tbl[key]
    THEN [err |-> ValidationException, tbl |-> tbl]
    ELSE [err |-> NilErr,
          tbl |-> [tbl EXCEPT ![key] = MapPut(@, "clickCount", @["clickCount"] + 1)]]

\* the table's TimeToLiveSpecification: an item whose "expiration" attribute
\* is earlier than the current time may be deleted by the service
TTLExpired(tbl, key, t) ==
    /\ key \in DOMAIN tbl
    /\ "expiration" \in DOMAIN tbl[key]
    /\ tbl[key]["expiration"] < t

----------------------------------------------------------------------------
(* pkg/database: the functions the handlers call *)

\* cfgErr is the outcome of config.LoadDefaultConfig
GetClient(cfgErr) ==
    IF cfgErr # NilErr
    THEN [client |-> FALSE, err |-> cfgErr]
    ELSE [client |-> TRUE, err |-> NilErr]

\* faulty variant of CreateURL: the error of PutItem is dropped
CreateURLDropsError(tbl, urlItem, fault) ==
    LET out == PutItem(tbl, MarshalMap(urlItem), fault)
    IN  [err |-> NilErr, tbl |-> out.tbl]

CreateURL(tbl, urlItem, fault) ==
    LET out == PutItem(tbl, MarshalMap(urlItem), fault)
    IN  [err |-> out.err, tbl |-> out.tbl]

\* faulty variant of GetURL: the error for a missing item is worded
\* differently from what the handlers look for
GetURLOtherWording(tbl, code, fault) ==
    LET result == GetItem(tbl, code, fault)
    IN  IF result.err # NilErr THEN [err |-> result.err, urlItem |-> NoItem]
        ELSE IF result.Item = EmptyMap
        THEN [err |-> <<"item not found", "for code">>, urlItem |-> NoItem]
        ELSE [err |-> NilErr, urlItem |-> UnmarshalMap(result.Item)]

GetURL(tbl, code, fault) ==
    LET result == GetItem(tbl, code, fault)
    IN  IF result.err # NilErr THEN [err |-> result.err, urlItem |-> NoItem]
        ELSE IF result.Item = EmptyMap
        THEN [err |-> <<"URL not found", "for code">>, urlItem |-> NoItem]
        ELSE [err |-> NilErr, urlItem |-> UnmarshalMap(result.Item)]

IncrementClickCount(tbl, code, fault) ==
    LET out == UpdateItem(tbl, code, fault)
    IN  [err |-> out.err, tbl |-> out.tbl]

----------------------------------------------------------------------------
(* pkg/handler: the three handlers as functions of the table, the request, *)
(* the environment and the outcomes of the calls they make.  Each returns  *)
(* the response and error handed back to the Lambda runtime, the table     *)
(* after the call, the goroutines it launched and the calls it made.       *)

ErrorBody(msg) == [x \in {"error"} |-> msg]

\* Body: "" of a response
EmptyBody == EmptyMap

JsonContentType == [x \in {"Content-Type"} |-> "application/json"]

\* json.Marshal(model.ShortenResponse{...})
MarshalShortenResponse(shortURL) == [x \in {"short_url"} |-> shortURL]

\* faulty variant of MarshalStatsResponse: ClickCount is not carried into
\* the response and keeps its zero value
MarshalStatsResponseNoCount(stats) ==
    LET always == [a \in {"original_url", "created_at", "click_count"} |->
                      CASE a = "original_url" -> stats.OriginalURL
                        [] a = "created_at"   -> stats.CreatedAt
                        [] a = "click_count"  -> 0]
    IN  IF stats.Expiration = 0
        THEN always
        ELSE MapPut(always, "expiration", stats.Expiration)

\* json.Marshal(model.StatsResponse{...}); "expiration,omitempty"
MarshalStatsResponse(stats) ==
    LET always == [a \in {"original_url", "created_at", "click_count"} |->
                      CASE a = "original_url" -> stats.OriginalURL
                        [] a = "created_at"   -> stats.CreatedAt
                        [] a = "click_count"  -> stats.ClickCount]
    IN  IF stats.Expiration = 0
        THEN always
        ELSE MapPut(always, "expiration", stats.Expiration)

Response(status, headers, body) ==
    [StatusCode |-> status, Headers |-> headers, Body |-> body]

\* faulty variant of Result: a handler that answers 500 also returns the
\* error to the runtime
ResultSurfacesError(response, tbl, spawned, calls) ==
    [response |-> response,
     err |-> IF response.StatusCode = StatusInternalServerError
             THEN <<"internal error">> ELSE NilErr,
     tbl |-> tbl, spawned |-> spawned, calls |-> calls]

Result(response, tbl, spawned, calls) ==
    [response |-> response, err |-> NilErr, tbl |-> tbl,
     spawned |-> spawned, calls |-> calls]

\* faulty variant of ShortURLFor: BASE_URL is not consulted
ShortURLForHostOnly(env, domainName, code) ==
    <<"https://", domainName>> \o Slash \o code

\* fmt.Sprintf("%s/%s", baseURL, urlItem.ShortCode) with baseURL from
\* BASE_URL or, when that is empty, "https://" + req.RequestContext.DomainName
ShortURLFor(env, domainName, code) ==
    LET baseURL == IF env = "" THEN <<"https://", domainName>> ELSE <<env>>
    IN  baseURL \o Slash \o code

\* faulty variant of ShortenURL: the check for an empty URL is missing
ShortenURLNoURLCheck(tbl, req, env, oc) ==
    LET gc == GetClient(oc.cfgErr)
        shortenReq == JsonUnmarshal(req.Body)
        gen == GenerateShortCode(codeLength, oc.rnd)
        urlItem == [ShortCode   |-> gen.code,
                    OriginalURL |-> shortenReq.URL,
                    CreatedAt   |-> FormatRFC3339(oc.t2),
                    Expiration  |-> CalculateExpirationTime(shortenReq.ExpireInDays,
                                                            oc.t1, Local),
                    ClickCount  |-> 0]
        created == CreateURL(tbl, urlItem, oc.putFault)
    IN  IF gc.err # NilErr
        THEN Result(Response(StatusInternalServerError, EmptyMap,
                             ErrorBody("Internal server error")),
                    tbl, <<>>, <<"GetClient">>)
        ELSE IF shortenReq.err # NilErr
        THEN Result(Response(StatusBadRequest, EmptyMap,
                             ErrorBody("Invalid request body")),
                    tbl, <<>>, <<"GetClient", "Unmarshal">>)
        ELSE IF gen.err # NilErr
        THEN Result(Response(StatusInternalServerError, EmptyMap,
                             ErrorBody("Failed to generate short code")),
                    tbl, <<>>, <<"GetClient", "Unmarshal", "GenerateShortCode">>)
        ELSE IF created.err # NilErr
        THEN Result(Response(StatusInternalServerError, EmptyMap,
                             ErrorBody("Failed to create short URL")),
                    created.tbl, <<>>,
                    <<"GetClient", "Unmarshal", "GenerateShortCode", "CreateURL">>)
        ELSE Result(Response(StatusCreated, JsonContentType,
                             MarshalShortenResponse(
                                 ShortURLFor(env, req.DomainName, urlItem.ShortCode))),
                    created.tbl, <<>>,
                    <<"GetClient", "Unmarshal", "GenerateShortCode", "CreateURL">>)

\* oc: cfgErr (LoadDefaultConfig), rnd (rand.Read), t1 and t2 (the two
\* readings of time.Now()), putFault (PutItem)
ShortenURL(tbl, req, env, oc) ==
    LET gc == GetClient(oc.cfgErr)
        shortenReq == JsonUnmarshal(req.Body)
        gen == GenerateShortCode(codeLength, oc.rnd)
        urlItem == [ShortCode   |-> gen.code,
                    OriginalURL |-> shortenReq.URL,
                    CreatedAt   |-> FormatRFC3339(oc.t2),
                    Expiration  |-> CalculateExpirationTime(shortenReq.ExpireInDays,
                                                            oc.t1, Local),
                    ClickCount  |-> 0]
        created == CreateURL(tbl, urlItem, oc.putFault)
    IN  IF gc.err # NilErr
        THEN Result(Response(StatusInternalServerError, EmptyMap,
                             ErrorBody("Internal server error")),
                    tbl, <<>>, <<"GetClient">>)
        ELSE IF shortenReq.err # NilErr
        THEN Result(Response(StatusBadRequest, EmptyMap,
                             ErrorBody("Invalid request body")),
                    tbl, <<>>, <<"GetClient", "Unmarshal">>)
        ELSE IF shortenReq.URL = ""
        THEN Result(Response(StatusBadRequest, EmptyMap,
                             ErrorBody("URL is required")),
                    tbl, <<>>, <<"GetClient", "Unmarshal">>)
        ELSE IF gen.err # NilErr
        THEN Result(Response(StatusInternalServerError, EmptyMap,
                             ErrorBody("Failed to generate short code")),
                    tbl, <<>>, <<"GetClient", "Unmarshal", "GenerateShortCode">>)
        ELSE IF created.err # NilErr
        THEN Result(Response(StatusInternalServerError, EmptyMap,
                             ErrorBody("Failed to create short URL")),
                    created.tbl, <<>>,
                    <<"GetClient", "Unmarshal", "GenerateShortCode", "CreateURL">>)
        ELSE Result(Response(StatusCreated, JsonContentType,
                             MarshalShortenResponse(
                                 ShortURLFor(env, req.DomainName, urlItem.ShortCode))),
                    created.tbl, <<>>,
                    <<"GetClient", "Unmarshal", "GenerateShortCode", "CreateURL">>)

\* faulty variant of RedirectURL: the goroutine is launched as soon as the
\* code is known, before the result of the get is looked at
RedirectURLLaunchesFirst(tbl, req, oc) ==
    LET gc == GetClient(oc.cfgErr)
        path == req.RawPath
        code == TrimPrefix(path, Slash)
        got == GetURL(tbl, code, oc.getFault)
    IN  IF gc.err # NilErr
        THEN Result(Response(StatusInternalServerError, EmptyMap,
                             ErrorBody("Internal server error")),
                    tbl, <<>>, <<"GetClient">>)
        ELSE IF path = Slash
        THEN Result(Response(StatusBadRequest, EmptyMap,
                             ErrorBody("Short code is required")),
                    tbl, <<>>, <<"GetClient">>)
        ELSE IF got.err # NilErr
        THEN IF ErrorContains(got.err, "URL not found")
             THEN Result(Response(StatusNotFound, EmptyMap, ErrorBody("URL not found")),
                         tbl, <<code>>, <<"GetClient", "GetURL">>)
             ELSE Result(Response(StatusInternalServerError, EmptyMap,
                                  ErrorBody("Failed to retrieve URL")),
                         tbl, <<code>>, <<"GetClient", "GetURL">>)
        ELSE Result(Response(StatusFound,
                             [x \in {"Location"} |-> got.urlItem.OriginalURL],
                             EmptyBody),
                    tbl, <<code>>, <<"GetClient", "GetURL">>)

\* faulty variant of RedirectURL: the increment is called in the handler,
\* without "go", before the response is built
RedirectURLSync(tbl, req, oc) ==
    LET gc == GetClient(oc.cfgErr)
        path == req.RawPath
        code == TrimPrefix(path, Slash)
        got == GetURL(tbl, code, oc.getFault)
        inc == IncrementClickCount(tbl, code, NilErr)
    IN  IF gc.err # NilErr
        THEN Result(Response(StatusInternalServerError, EmptyMap,
                             ErrorBody("Internal server error")),
                    tbl, <<>>, <<"GetClient">>)
        ELSE IF path = Slash
        THEN Result(Response(StatusBadRequest, EmptyMap,
                             ErrorBody("Short code is required")),
                    tbl, <<>>, <<"GetClient">>)
        ELSE IF got.err # NilErr
        THEN IF ErrorContains(got.err, "URL not found")
             THEN Result(Response(StatusNotFound, EmptyMap, ErrorBody("URL not found")),
                         tbl, <<>>, <<"GetClient", "GetURL">>)
             ELSE Result(Response(StatusInternalServerError, EmptyMap,
                                  ErrorBody("Failed to retrieve URL")),
                         tbl, <<>>, <<"GetClient", "GetURL">>)
        ELSE Result(Response(StatusFound,
                             [x \in {"Location"} |-> got.urlItem.OriginalURL],
                             EmptyBody),
                    inc.tbl, <<>>, <<"GetClient", "GetURL", "IncrementClickCount">>)

\* oc: cfgErr (LoadDefaultConfig), getFault (GetItem)
RedirectURL(tbl, req, oc) ==
    LET gc == GetClient(oc.cfgErr)
        path == req.RawPath
        code == TrimPrefix(path, Slash)
        got == GetURL(tbl, code, oc.getFault)
    IN  IF gc.err # NilErr
        THEN Result(Response(StatusInternalServerError, EmptyMap,
                             ErrorBody("Internal server error")),
                    tbl, <<>>, <<"GetClient">>)
        ELSE IF path = Slash
        THEN Result(Response(StatusBadRequest, EmptyMap,
                             ErrorBody("Short code is required")),
                    tbl, <<>>, <<"GetClient">>)
        ELSE IF got.err # NilErr
        THEN IF ErrorContains(got.err, "URL not found")
             THEN Result(Response(StatusNotFound, EmptyMap, ErrorBody("URL not found")),
                         tbl, <<>>, <<"GetClient", "GetURL">>)
             ELSE Result(Response(StatusInternalServerError, EmptyMap,
                                  ErrorBody("Failed to retrieve URL")),
                         tbl, <<>>, <<"GetClient", "GetURL">>)
        ELSE \* go func() { database.IncrementClickCount(..., code) }()
             Result(Response(StatusFound,
                             [x \in {"Location"} |-> got.urlItem.OriginalURL],
                             EmptyBody),
                    tbl, <<code>>, <<"GetClient", "GetURL">>)

\* oc: cfgErr (LoadDefaultConfig), getFault (GetItem)
GetURLStats(tbl, req, oc) ==
    LET gc == GetClient(oc.cfgErr)
        path == req.RawPath
        code == TrimPrefix(path, StatsPrefix)
        got == GetURL(tbl, code, oc.getFault)
    IN  IF gc.err # NilErr
        THEN Result(Response(StatusInternalServerError, EmptyMap,
                             ErrorBody("Internal server error")),
                    tbl, <<>>, <<"GetClient">>)
        ELSE IF code = <<>> \/ code = path
        THEN Result(Response(StatusBadRequest, EmptyMap,
                             ErrorBody("Short code is required")),
                    tbl, <<>>, <<"GetClient">>)
        ELSE IF got.err # NilErr
        THEN IF ErrorContains(got.err, "URL not found")
             THEN Result(Response(StatusNotFound, EmptyMap, ErrorBody("URL not found")),
                         tbl, <<>>, <<"GetClient", "GetURL">>)
             ELSE Result(Response(StatusInternalServerError, EmptyMap,
                                  ErrorBody("Failed to retrieve URL")),
                         tbl, <<>>, <<"GetClient", "GetURL">>)
        ELSE Result(Response(StatusOK, JsonContentType,
                             MarshalStatsResponse(
                                 [OriginalURL |-> got.urlItem.OriginalURL,
                                  CreatedAt   |-> got.urlItem.CreatedAt,
                                  Expiration  |-> got.urlItem.Expiration,
                                  ClickCount  |-> got.urlItem.ClickCount])),
                    tbl, <<>>, <<"GetClient", "GetURL">>)

----------------------------------------------------------------------------
(* cmd/main.go: the function registered with lambda.Start *)

MethodGet == "GET"

MethodPost == "POST"

ShortenPath == <<"/", "s", "h", "o", "r", "t", "e", "n">>

\* event: Method, RawPath, Body, DomainName; oc: the outcomes of every call
\* a handler can make.  The name of the handler chosen is put in front of
\* the calls it made.
\* faulty variant of router: the redirect case is tried before the stats case
routerRedirectFirst(tbl, event, env, oc) ==
    LET path == event.RawPath
        method == event.Method
        via(name, r) == [r EXCEPT !.calls = <<name>> \o @]
    IN  IF method = MethodPost /\ path = ShortenPath
        THEN via("ShortenURL", ShortenURL(tbl, event, env, oc))
        ELSE IF method = MethodGet /\ path # Slash
        THEN via("RedirectURL", RedirectURL(tbl, event, oc))
        ELSE IF method = MethodGet /\ HasPrefix(path, StatsPrefix)
        THEN via("GetURLStats", GetURLStats(tbl, event, oc))
        ELSE Result(Response(StatusNotFound, EmptyMap, ErrorBody("Not found")), tbl, <<>>, <<>>)

router(tbl, event, env, oc) ==
    LET path == event.RawPath
        method == event.Method
        via(name, r) == [r EXCEPT !.calls = <<name>> \o @]
    IN  IF method = MethodPost /\ path = ShortenPath
        THEN via("ShortenURL", ShortenURL(tbl, event, env, oc))
        ELSE IF method = MethodGet /\ HasPrefix(path, StatsPrefix)
        THEN via("GetURLStats", GetURLStats(tbl, event, oc))
        ELSE IF method = MethodGet /\ path # Slash
        THEN via("RedirectURL", RedirectURL(tbl, event, oc))
        ELSE Result(Response(StatusNotFound, EmptyMap, ErrorBody("Not found")),
                    tbl, <<>>, <<>>)

----------------------------------------------------------------------------
(* pkg/monitoring and the build of the handlers and of router that records *)
(* CloudWatch metrics.  A *monitoring.Client is [nil, cwClient]: whether   *)
(* the pointer is nil and whether its cwClient is set.  oc carries two     *)
(* more outcomes: metricErr (LoadDefaultConfig inside monitoring.NewClient)*)
(* and cwFault (PutMetricData).                                            *)

NilMetricClient == [nil |-> TRUE, cwClient |-> FALSE]

\* faulty variant of NewClient: on a configuration failure it returns a
\* Client whose cwClient was never set, next to the error
NewClientHalfBuilt(cfgErr) ==
    IF cfgErr # NilErr
    THEN [client |-> [nil |-> FALSE, cwClient |-> FALSE], err |-> cfgErr]
    ELSE [client |-> [nil |-> FALSE, cwClient |-> TRUE], err |-> NilErr]

\* monitoring.NewClient(ctx)
NewClient(cfgErr) ==
    IF cfgErr # NilErr
    THEN [client |-> NilMetricClient, err |-> cfgErr]
    ELSE [client |-> [nil |-> FALSE, cwClient |-> TRUE], err |-> NilErr]

\* c.PutMetric for each of the metrics named, one after the other: a call
\* through a nil Client or a nil cwClient is a nil pointer dereference; an
\* error of PutMetricData is logged and returned
PutMetric(c, names, cwFault) ==
    IF names = <<>> THEN [sent |-> <<>>, panic |-> FALSE]
    ELSE IF c.nil \/ ~c.cwClient THEN [sent |-> <<>>, panic |-> TRUE]
    ELSE [sent |-> IF cwFault = NilErr THEN names ELSE <<>>, panic |-> FALSE]

\* if metricClient != nil { metricClient.Record...(ctx) }: the value the
\* Record method returns is dropped
Record(metricClient, names, cwFault) ==
    IF metricClient.nil THEN [sent |-> <<>>, panic |-> FALSE]
    ELSE PutMetric(metricClient, names, cwFault)

\* the function ends with r after the metrics of rec were recorded; a panic
\* while recording ends it with a runtime error in place of the response
Recorded(r, rec) ==
    IF rec.panic
    THEN [response |-> Response(0, EmptyMap, EmptyBody),
          err |-> <<"runtime error", "nil pointer dereference">>,
          tbl |-> r.tbl, spawned |-> r.spawned, calls |-> r.calls, metrics |-> <<>>]
    ELSE [response |-> r.response, err |-> r.err, tbl |-> r.tbl,
          spawned |-> r.spawned, calls |-> r.calls, metrics |-> rec.sent]

ShortenURLMonitored(tbl, req, env, oc) ==
    LET metricClient == NewClient(oc.metricErr).client
        gc == GetClient(oc.cfgErr)
        shortenReq == JsonUnmarshal(req.Body)
        gen == GenerateShortCode(codeLength, oc.rnd)
        urlItem == [ShortCode   |-> gen.code,
                    OriginalURL |-> shortenReq.URL,
                    CreatedAt   |-> FormatRFC3339(oc.t2),
                    Expiration  |-> CalculateExpirationTime(shortenReq.ExpireInDays,
                                                            oc.t1, Local),
                    ClickCount  |-> 0]
        created == CreateURL(tbl, urlItem, oc.putFault)
        none == Record(metricClient, <<>>, oc.cwFault)
    IN  IF gc.err # NilErr
        THEN Recorded(Result(Response(StatusInternalServerError, EmptyMap,
                                      ErrorBody("Internal server error")),
                             tbl, <<>>, <<"NewClient", "GetClient">>),
                      Record(metricClient, <<"DynamoDBError">>, oc.cwFault))
        ELSE IF shortenReq.err # NilErr
        THEN Recorded(Result(Response(StatusBadRequest, EmptyMap,
                                      ErrorBody("Invalid request body")),
                             tbl, <<>>, <<"NewClient", "GetClient", "Unmarshal">>),
                      none)
        ELSE IF shortenReq.URL = ""
        THEN Recorded(Result(Response(StatusBadRequest, EmptyMap,
                                      ErrorBody("URL is required")),
                             tbl, <<>>, <<"NewClient", "GetClient", "Unmarshal">>),
                      none)
        ELSE IF gen.err # NilErr
        THEN Recorded(Result(Response(StatusInternalServerError, EmptyMap,
                                      ErrorBody("Failed to generate short code")),
                             tbl, <<>>,
                             <<"NewClient", "GetClient", "Unmarshal", "GenerateShortCode">>),
                      none)
        ELSE IF created.err # NilErr
        THEN Recorded(Result(Response(StatusInternalServerError, EmptyMap,
                                      ErrorBody("Failed to create short URL")),
                             created.tbl, <<>>,
                             <<"NewClient", "GetClient", "Unmarshal", "GenerateShortCode",
                               "CreateURL">>),
                      Record(metricClient, <<"DynamoDBError">>, oc.cwFault))
        ELSE Recorded(Result(Response(StatusCreated, JsonContentType,
                                      MarshalShortenResponse(
                                          ShortURLFor(env, req.DomainName,
                                                      urlItem.ShortCode))),
                             created.tbl, <<>>,
                             <<"NewClient", "GetClient", "Unmarshal", "GenerateShortCode",
                               "CreateURL">>),
                      Record(metricClient, <<"URLCreated", "APILatency">>, oc.cwFault))

\* the path is checked before either client is made
RedirectURLMonitored(tbl, req, oc) ==
    LET path == req.RawPath
        metricClient == NewClient(oc.metricErr).client
        code == TrimPrefix(path, Slash)
        gc == GetClient(oc.cfgErr)
        got == GetURL(tbl, code, oc.getFault)
    IN  IF path = Slash
        THEN Recorded(Result(Response(StatusBadRequest, EmptyMap,
                                      ErrorBody("Short code is required")),
                             tbl, <<>>, <<>>),
                      [sent |-> <<>>, panic |-> FALSE])
        ELSE IF gc.err # NilErr
        THEN Recorded(Result(Response(StatusInternalServerError, EmptyMap,
                                      ErrorBody("Internal server error")),
                             tbl, <<>>, <<"NewClient", "GetClient">>),
                      Record(metricClient, <<"DynamoDBError">>, oc.cwFault))
        ELSE IF got.err # NilErr
        THEN IF ErrorContains(got.err, "URL not found")
             THEN Recorded(Result(Response(StatusNotFound, EmptyMap,
                                           ErrorBody("URL not found")),
                                  tbl, <<>>, <<"NewClient", "GetClient", "GetURL">>),
                           Record(metricClient, <<"URLNotFound">>, oc.cwFault))
             ELSE Recorded(Result(Response(StatusInternalServerError, EmptyMap,
                                           ErrorBody("Failed to retrieve URL")),
                                  tbl, <<>>, <<"NewClient", "GetClient", "GetURL">>),
                           Record(metricClient, <<"DynamoDBError">>, oc.cwFault))
        ELSE \* go func() { database.IncrementClickCount(..., code) ... }()
             Recorded(Result(Response(StatusFound,
                                      [x \in {"Location"} |-> got.urlItem.OriginalURL],
                                      EmptyBody),
                             tbl, <<code>>, <<"NewClient", "GetClient", "GetURL">>),
                      Record(metricClient, <<"URLRedirected", "APILatency">>, oc.cwFault))

\* the code is checked before either client is made
GetURLStatsMonitored(tbl, req, oc) ==
    LET path == req.RawPath
        code == TrimPrefix(path, StatsPrefix)
        metricClient == NewClient(oc.metricErr).client
        gc == GetClient(oc.cfgErr)
        got == GetURL(tbl, code, oc.getFault)
    IN  IF code = <<>> \/ code = path
        THEN Recorded(Result(Response(StatusBadRequest, EmptyMap,
                                      ErrorBody("Short code is required")),
                             tbl, <<>>, <<>>),
                      [sent |-> <<>>, panic |-> FALSE])
        ELSE IF gc.err # NilErr
        THEN Recorded(Result(Response(StatusInternalServerError, EmptyMap,
                                      ErrorBody("Internal server error")),
                             tbl, <<>>, <<"NewClient", "GetClient">>),
                      Record(metricClient, <<"DynamoDBError">>, oc.cwFault))
        ELSE IF got.err # NilErr
        THEN IF ErrorContains(got.err, "URL not found")
             THEN Recorded(Result(Response(StatusNotFound, EmptyMap,
                                           ErrorBody("URL not found")),
                                  tbl, <<>>, <<"NewClient", "GetClient", "GetURL">>),
                           Record(metricClient, <<"URLNotFound">>, oc.cwFault))
             ELSE Recorded(Result(Response(StatusInternalServerError, EmptyMap,
                                           ErrorBody("Failed to retrieve URL")),
                                  tbl, <<>>, <<"NewClient", "GetClient", "GetURL">>),
                           Record(metricClient, <<"DynamoDBError">>, oc.cwFault))
        ELSE Recorded(Result(Response(StatusOK, JsonContentType,
                                      MarshalStatsResponse(
                                          [OriginalURL |-> got.urlItem.OriginalURL,
                                           CreatedAt   |-> got.urlItem.CreatedAt,
                                           Expiration  |-> got.urlItem.Expiration,
                                           ClickCount  |-> got.urlItem.ClickCount])),
                             tbl, <<>>, <<"NewClient", "GetClient", "GetURL">>),
                      Record(metricClient, <<"URLStatsRetrieved", "APILatency">>,
                             oc.cwFault))

\* router of the build with metrics: its own monitoring client, the same
\* dispatch, then the latency metric; a handler that ended in a runtime
\* error ends router with it
routerMonitored(tbl, event, env, oc) ==
    LET path == event.RawPath
        method == event.Method
        metricClient == NewClient(oc.metricErr).client
        via(name, r) == [r EXCEPT !.calls = <<name>> \o @]
        routed ==
            IF method = MethodPost /\ path = ShortenPath
            THEN via("ShortenURL", ShortenURLMonitored(tbl, event, env, oc))
            ELSE IF method = MethodGet /\ HasPrefix(path, StatsPrefix)
            THEN via("GetURLStats", GetURLStatsMonitored(tbl, event, oc))
            ELSE IF method = MethodGet /\ path # Slash
            THEN via("RedirectURL", RedirectURLMonitored(tbl, event, oc))
            ELSE Recorded(Result(Response(StatusNotFound, EmptyMap,
                                          ErrorBody("Not found")), tbl, <<>>, <<>>),
                          [sent |-> <<>>, panic |-> FALSE])
        rec == Record(metricClient, <<"APILatency">>, oc.cwFault)
    IN  IF routed.response.StatusCode = 0 THEN routed
        ELSE LET r == Recorded(routed, rec)
             IN  IF rec.panic THEN r
                 ELSE [r EXCEPT !.metrics = routed.metrics \o rec.sent]

----------------------------------------------------------------------------
(* Inputs and outcomes the environment can supply *)

URLs == {"https://a.example/x", "https://b.example/y"}

\* the url that is sent with expire_in_days
ExpiringURLs == {"https://b.example/y"}

Domains == {"abc.lambda-url.us-east-1.on.aws"}

\* values of the environment variable BASE_URL ("" when unset)
BaseURLValues == {"", "https://sho.rt"}

DaysValues == {1}

\* JSON objects of a request body: no url, an empty url, a url alone, a url
\* with expire_in_days (the two urls tell a record that expires from one
\* that does not)
JsonObjects ==
    {EmptyMap}
    \cup {[x \in {"url"} |-> u] : u \in (URLs \ ExpiringURLs) \cup {""}}
    \cup {[x \in {"url", "expire_in_days"} |-> IF x = "url" THEN u ELSE d] :
             u \in ExpiringURLs, d \in DaysValues}

Bodies ==
    {[valid |-> FALSE, fields |-> EmptyMap]}
    \cup {[valid |-> TRUE, fields |-> f] : f \in JsonObjects}

\* 0 and 62 select the same character: two different random draws, one code
RandBuffers == {<<0, 0, 0, 0, 0>>, <<62, 0, 0, 0, 0>>}

RandOutcomes ==
    {[err |-> <<"unexpected EOF">>, bytes |-> <<>>]}
    \cup {[err |-> NilErr, bytes |-> b] : b \in RandBuffers}

ConfigErrors == {NilErr, <<"failed to load config">>}

BackendFaults ==
    {NilErr, <<"operation error DynamoDB", "ProvisionedThroughputExceededException">>}

\* a backend failure whose message happens to contain the words the handlers
\* look for in the error of GetURL
MisleadingFaults ==
    {<<"operation error DynamoDB", "api error", "URL not found">>}

GeneratedCodes ==
    {GenerateShortCode(codeLength, [err |-> NilErr, bytes |-> b]).code : b \in RandBuffers}

\* a request names a code that can be generated: it is missing while the
\* table holds no record for it
RequestCodes == GeneratedCodes

\* request paths handed to RedirectURL and to GetURLStats
RedirectPaths == {Slash} \cup {Slash \o c : c \in RequestCodes}

StatsPaths == {StatsPrefix} \cup {StatsPrefix \o c : c \in RequestCodes}

\* what can happen inside one handler: every call succeeds, or one fails
ShortenOutcomes ==
    {[cfgErr |-> NilErr, rnd |-> r, putFault |-> NilErr] : r \in RandOutcomes}
    \cup {[cfgErr |-> c, rnd |-> [err |-> NilErr, bytes |-> <<0, 0, 0, 0, 0>>],
           putFault |-> NilErr] : c \in ConfigErrors}
    \cup {[cfgErr |-> NilErr, rnd |-> [err |-> NilErr, bytes |-> <<0, 0, 0, 0, 0>>],
           putFault |-> f] : f \in BackendFaults}

LookupOutcomes ==
    {[cfgErr |-> c, getFault |-> NilErr] : c \in ConfigErrors}
    \cup {[cfgErr |-> NilErr, getFault |-> f] : f \in BackendFaults}

StartTime == 20000 * SecondsPerDay

TickSeconds == SecondsPerDay + 1

----------------------------------------------------------------------------
(* The two implementations of DynamoDBInterface as objects: their fields   *)
(* and, for each goroutine, where it is inside a method of the object.     *)

Threads == 1..MaxThreads

NoResult == [err |-> NilErr, urlItem |-> NoItem]

\* a goroutine that is not inside a method of the MockDynamoDB
IdleMockCall ==
    [pc |-> "idle", op |-> "none", code |-> <<>>, urlItem |-> NoItem, count |-> 0,
     result |-> NoResult, expected |-> NoResult]

\* NewMockDynamoDB(): an empty map, failNext false, the mutex free (writer
\* is the goroutine holding Lock, 0 for none; readers hold RLock)
NewMockDynamoDB ==
    [urls |-> EmptyMap, failNext |-> FALSE, writer |-> 0, readers |-> {},
     calls |-> [t \in Threads |-> IdleMockCall]]

\* a *dynamodb.Client is the number of the NewFromConfig call that made it;
\* the nil pointer is 0
NilClient == 0

\* a goroutine that is not inside a method of the adapter
IdleAdapterCall ==
    [pc |-> "idle", op |-> "none", client |-> NilClient, err |-> NilErr]

\* NewDynamoDB(client): the adapter holds the client it was given; built
\* counts the clients its GetClient has constructed
NewDynamoDB(client) ==
    [client |-> client, built |-> 0, calls |-> [t \in Threads |-> IdleAdapterCall]]

----------------------------------------------------------------------------
(* State machine *)

NoResponse == [StatusCode |-> 0, Headers |-> EmptyMap, Body |-> EmptyMap, err |-> NilErr]

\* what the Lambda runtime gets back from a handler
Returned(r) ==
    [StatusCode |-> r.response.StatusCode, Headers |-> r.response.Headers,
     Body |-> r.response.Body, err |-> r.err]

\* which failure the environment injected into a step
Injected(cfgErr, rndErr, fault) ==
    IF cfgErr # NilErr THEN "config"
    ELSE IF rndErr # NilErr THEN "rand"
    ELSE IF fault # NilErr THEN "store"
    ELSE "none"

\* method and path of a request that came through the router
NoRoute == [method |-> "", path |-> <<>>]

\* BASE_URL and the host of a request that came through the router
NoBase == [env |-> "", host |-> ""]

\* observation of a step: the operation; the key its request addresses (for
\* ShortenURL the key it stored); the url submitted and whether the body
\* parsed; the failure injected; the calls made; the goroutines launched;
\* whether the table changed; whether the step's own call failed
Obs(op, key, url, valid, injected, calls, spawned, wrote, failed) ==
    [op |-> op, key |-> key, url |-> url, valid |-> valid, injected |-> injected,
     calls |-> calls, spawned |-> spawned, wrote |-> wrote, failed |-> failed,
     route |-> NoRoute, base |-> NoBase]

NoObs == Obs("none", <<>>, "", FALSE, "none", <<>>, <<>>, FALSE, FALSE)

\* a goroutine launched by RedirectURL for code; response is what the
\* handler that launched it returned
NewTask(code, r) ==
    [code |-> code, state |-> "pending", stale |-> FALSE, applied |-> "no",
     response |-> [StatusCode |-> r.response.StatusCode,
                   Headers |-> r.response.Headers, err |-> r.err]]

RECURSIVE Launch(_, _, _)
Launch(ts, spawned, r) ==
    IF spawned = <<>> THEN ts
    ELSE Launch(ts (+) SetToBag({NewTask(Head(spawned), r)}), Tail(spawned), r)

RECURSIVE SumCopies(_, _)
SumCopies(S, B) ==
    IF S = {} THEN 0
    ELSE LET t == CHOOSE x \in S : TRUE
         IN  CopiesIn(t, B) + SumCopies(S \ {t}, B)

\* bookkeeping when a record is written under key: goroutines launched for
\* the record that was there before now address a different record
Superseded(t, key) ==
    IF t.code = key
    THEN [t EXCEPT !.stale = TRUE, !.applied = IF @ = "current" THEN "old" ELSE @]
    ELSE t

Supersede(ts, key) ==
    LET S == BagToSet(ts)
    IN  [t2 \in {Superseded(t, key) : t \in S} |->
            SumCopies({t \in S : Superseded(t, key) = t2}, ts)]

Replace(ts, t, t2) == (ts (-) SetToBag({t})) (+) SetToBag({t2})

\* bookkeeping when ShortenURL has stored a record under key (<<>>: it
\* stored none): the codes that were given a record with no expiration
Remembered(perm, tbl, key) ==
    IF key # <<>> /\ key \in DOMAIN tbl /\ "expiration" \notin DOMAIN tbl[key]
    THEN perm \cup {key}
    ELSE perm

\* no function of pkg/utils has been called directly
NoCall == [fn |-> "none"]

Init ==
    /\ table = EmptyMap
    /\ now = StartTime
    /\ tasks = EmptyBag
    /\ resp = NoResponse
    /\ last = NoObs
    /\ permanent = {}
    /\ call = NoCall
    /\ mock = NewMockDynamoDB
    /\ adapter = NewDynamoDB(NilClient)

\* one ShortenURL invocation in which dt seconds pass between the two
\* readings of the clock
ShortenTaking(dt) ==
    \* BASE_URL is varied behind the router; a failure of rand.Read or of
    \* PutItem, and a second draw of random bytes, exist only in an
    \* invocation that gets as far as GenerateShortCode
    \E body \in Bodies, domain \in Domains, env \in {""},
       oc \in ShortenOutcomes :
        LET t2 == now + dt
            r == ShortenURL(table, [Body |-> body, DomainName |-> domain], env,
                            [cfgErr |-> oc.cfgErr, rnd |-> oc.rnd, t1 |-> now,
                             t2 |-> t2, putFault |-> oc.putFault])
            stored == r.response.StatusCode = StatusCreated
            key == IF stored THEN GenerateShortCode(codeLength, oc.rnd).code ELSE <<>>
        IN  /\ (oc.rnd # [err |-> NilErr, bytes |-> <<0, 0, 0, 0, 0>>]
                    \/ oc.putFault # NilErr)
                   => (body.valid /\ JsonUnmarshal(body).URL # "")
            /\ table' = r.tbl
            /\ now' = t2
            /\ permanent' = Remembered(permanent, r.tbl, key)
            /\ tasks' = IF stored THEN Supersede(tasks, key) ELSE tasks
            /\ resp' = Returned(r)
            /\ last' = Obs("shorten", key, JsonUnmarshal(body).URL, body.valid,
                           Injected(oc.cfgErr, oc.rnd.err, oc.putFault),
                           r.calls, r.spawned, r.tbl # table, FALSE)
            /\ UNCHANGED <<call, mock, adapter>>

Shorten ==
    \E dt \in 0..MaxSkew :
        /\ (now + dt - StartTime) % TickSeconds <= MaxSkew
        /\ ShortenTaking(dt)

Redirect ==
    \E path \in RedirectPaths, oc \in LookupOutcomes :
        LET r == RedirectURL(table, [RawPath |-> path], oc)
        IN  /\ BagCardinality(tasks) < MaxTasks
            \* GetItem can fail only in an invocation that calls it
            /\ oc.getFault # NilErr => path # Slash
            /\ table' = r.tbl
            /\ tasks' = Launch(tasks, r.spawned, r)
            /\ resp' = Returned(r)
            /\ last' = Obs("redirect", TrimPrefix(path, Slash), "", FALSE,
                           Injected(oc.cfgErr, NilErr, oc.getFault),
                           r.calls, r.spawned, r.tbl # table, FALSE)
            /\ UNCHANGED <<now, permanent, call, mock, adapter>>

Stats ==
    \E path \in StatsPaths, oc \in LookupOutcomes :
        LET r == GetURLStats(table, [RawPath |-> path], oc)
        IN  /\ oc.getFault # NilErr => path # StatsPrefix
            /\ table' = r.tbl
            /\ tasks' = Launch(tasks, r.spawned, r)
            /\ resp' = Returned(r)
            /\ last' = Obs("stats", TrimPrefix(path, StatsPrefix), "", FALSE,
                           Injected(oc.cfgErr, NilErr, oc.getFault),
                           r.calls, r.spawned, r.tbl # table, FALSE)
            /\ UNCHANGED <<now, permanent, call, mock, adapter>>

\* the goroutine of RedirectURL runs: IncrementClickCount, error only logged
RunIncrement ==
    \E t \in BagToSet(tasks), fault \in BackendFaults :
        LET out == IncrementClickCount(table, t.code, fault)
        IN  /\ t.state = "pending"
            /\ table' = out.tbl
            /\ tasks' = Replace(tasks, t,
                            [t EXCEPT !.state = IF out.err = NilErr THEN "done" ELSE "failed",
                                      !.applied = IF out.err = NilErr THEN "current" ELSE "no"])
            /\ resp' = NoResponse
            /\ last' = Obs("increment", t.code, "", FALSE, Injected(NilErr, NilErr, fault),
                           <<"IncrementClickCount">>, <<>>, out.tbl # table,
                           out.err # NilErr)
            /\ UNCHANGED <<now, permanent, call, mock, adapter>>

\* the invocation ends (the runtime freezes or discards the process) before
\* the goroutine has run
AbandonIncrement ==
    \E t \in BagToSet(tasks) :
        /\ t.state = "pending"
        /\ tasks' = Replace(tasks, t, [t EXCEPT !.state = "abandoned"])
        /\ resp' = NoResponse
        /\ last' = NoObs
        /\ UNCHANGED <<table, now, permanent, call, mock, adapter>>

\* time passes: a day and a second, so that what expired in a day is past
Tick ==
    /\ now + TickSeconds <= StartTime + MaxTicks * TickSeconds + MaxSkew
    /\ now' = now + TickSeconds
    /\ resp' = NoResponse
    /\ last' = NoObs
    /\ UNCHANGED <<table, tasks, permanent, call, mock, adapter>>

\* DynamoDB's background TTL process deletes one expired item
TTLSweep ==
    \E key \in DOMAIN table :
        /\ TTLExpired(table, key, now)
        /\ table' = MapDel(table, key)
        /\ resp' = NoResponse
        /\ last' = NoObs
        /\ UNCHANGED <<now, tasks, permanent, call, mock, adapter>>

Next ==
    \/ Shorten
    \/ Redirect
    \/ Stats
    \/ RunIncrement
    \/ AbandonIncrement
    \/ Tick
    \/ TTLSweep

Spec == Init /\ [][Next]_vars

\* DynamoDB deletes an expired item eventually: the TTL process is not
\* postponed for ever
SpecFair == Spec /\ WF_vars(TTLSweep)

----------------------------------------------------------------------------
(* The function on a clock that moves while a handler runs *)

\* a ShortenURL invocation during which the clock passes a second boundary
SlowShorten ==
    \E dt \in 1..MaxDelay :
        /\ now + dt <= StartTime + MaxDrift
        /\ ShortenTaking(dt)

NextClock ==
    \/ SlowShorten
    \/ Shorten
    \/ Stats

SpecClock == Init /\ [][NextClock]_vars

----------------------------------------------------------------------------
(* pkg/utils called directly: inputs drawn from bounded sets *)

\* locations whose offset changes half a day after StartTime: forward by an
\* hour (summer time begins) and back by an hour (summer time ends)
SummerBegins ==
    [before |-> SecondsPerDay \div 24, after |-> SecondsPerDay \div 12,
     transition |-> StartTime + SecondsPerDay \div 2]

SummerEnds ==
    [before |-> SecondsPerDay \div 12, after |-> SecondsPerDay \div 24,
     transition |-> StartTime + SecondsPerDay \div 2]

Locations == {UTC, SummerBegins, SummerEnds}

\* clock readings on both sides of the transition; a day after the second
\* one the wall clock of SummerBegins shows an hour that is skipped
ClockReadings ==
    {StartTime - SecondsPerDay, StartTime - SecondsPerDay \div 2, StartTime, StartTime + 1,
     StartTime + SecondsPerDay \div 2, StartTime + SecondsPerDay - 1}

DayInputs == (0 - MaxDays)..MaxDays

ByteValues == 0..255

\* the buffers rand.Read can fill: every byte value for one byte, a few
\* values for more
RandInputs(length) ==
    IF length = 1 THEN {<<b>> : b \in ByteValues}
    ELSE IF length = codeLength THEN RandBuffers
    ELSE [1..length -> {0, Len(charset) - 1, Len(charset), 255}]

InitUtils ==
    /\ table = EmptyMap
    /\ now \in ClockReadings
    /\ tasks = EmptyBag
    /\ resp = NoResponse
    /\ last = NoObs
    /\ permanent = {}
    /\ call = NoCall
    /\ mock = NewMockDynamoDB
    /\ adapter = NewDynamoDB(NilClient)

CallCalculateExpirationTime ==
    \E days \in DayInputs, loc \in Locations :
        /\ call' = [fn |-> "CalculateExpirationTime", days |-> days, t |-> now,
                    loc |-> loc, result |-> CalculateExpirationTime(days, now, loc)]
        /\ UNCHANGED <<table, now, tasks, resp, last, permanent, mock, adapter>>

CallGenerateShortCode ==
    \E length \in (0..MaxLength) \cup {codeLength} :
        \E rnd \in {[err |-> <<"unexpected EOF">>, bytes |-> <<>>]}
                   \cup {[err |-> NilErr, bytes |-> b] : b \in RandInputs(length)} :
            /\ call' = [fn |-> "GenerateShortCode", length |-> length, rnd |-> rnd,
                        result |-> GenerateShortCode(length, rnd)]
            /\ UNCHANGED <<table, now, tasks, resp, last, permanent, mock, adapter>>

NextUtils ==
    \/ CallCalculateExpirationTime
    \/ CallGenerateShortCode

SpecUtils == InitUtils /\ [][NextUtils]_vars

----------------------------------------------------------------------------
(* The function behind its router *)

Methods == {MethodGet, MethodPost, "PUT"}

\* the hosts a function URL is reached under
Hosts == Domains \cup {"sho.rt"}

\* "/", "/shorten", "/stats", "/stats/", and the paths of a generated code
RouterPaths ==
    {Slash, ShortenPath, SubSeq(StatsPrefix, 1, Len(StatsPrefix) - 1), StatsPrefix}
    \cup {Slash \o c : c \in GeneratedCodes}
    \cup {StatsPrefix \o c : c \in GeneratedCodes}

\* no JSON, no url, a url
RouterBodies ==
    {b \in Bodies : \/ b.fields = EmptyMap
                    \/ DOMAIN b.fields = {"url"} /\ b.fields["url"] = "https://a.example/x"}

\* every call succeeds, or one kind of call fails
RouterOutcomes ==
    LET ok == [err |-> NilErr, bytes |-> <<0, 0, 0, 0, 0>>]
    IN  {[cfgErr |-> c, rnd |-> ok, putFault |-> NilErr, getFault |-> NilErr] :
            c \in ConfigErrors}
        \cup {[cfgErr |-> NilErr, rnd |-> r, putFault |-> NilErr, getFault |-> NilErr] :
                 r \in RandOutcomes \ {ok}}
        \cup {[cfgErr |-> NilErr, rnd |-> ok, putFault |-> f, getFault |-> f] :
                 f \in BackendFaults \cup MisleadingFaults}

\* one request handled by router
Route ==
    \E method \in Methods, path \in RouterPaths, oc \in RouterOutcomes :
      \* body, host and BASE_URL are read by ShortenURL alone
      \E body \in IF method = MethodPost /\ path = ShortenPath
                  THEN RouterBodies ELSE {b \in RouterBodies : ~b.valid},
         domain \in IF method = MethodPost /\ path = ShortenPath
                    THEN Hosts ELSE Domains,
         env \in IF method = MethodPost /\ path = ShortenPath
                 THEN BaseURLValues ELSE {""} :
        LET event == [Method |-> method, RawPath |-> path, Body |-> body,
                      DomainName |-> domain]
            r == router(table, event, env,
                        [cfgErr |-> oc.cfgErr, rnd |-> oc.rnd, t1 |-> now, t2 |-> now,
                         putFault |-> oc.putFault, getFault |-> oc.getFault])
            stored == r.response.StatusCode = StatusCreated
            key == IF stored THEN GenerateShortCode(codeLength, oc.rnd).code ELSE <<>>
        IN  /\ BagCardinality(tasks) < MaxTasks
            /\ table' = r.tbl
            /\ tasks' = Launch(IF stored THEN Supersede(tasks, key) ELSE tasks,
                               r.spawned, r)
            /\ resp' = Returned(r)
            /\ last' = [Obs("router", key, JsonUnmarshal(body).URL, body.valid,
                            Injected(oc.cfgErr, oc.rnd.err, oc.putFault),
                            r.calls, r.spawned, r.tbl # table, FALSE)
                        EXCEPT !.route = [method |-> method, path |-> path],
                               !.base = [env |-> env, host |-> domain]]
            /\ permanent' = Remembered(permanent, r.tbl, key)
            /\ UNCHANGED <<now, call, mock, adapter>>

\* RedirectURL is also called directly: router never gives it the path "/"
NextRouter ==
    \/ Route
    \/ Redirect
    \/ RunIncrement

SpecRouter == Init /\ [][NextRouter]_vars

----------------------------------------------------------------------------
(* The build that records metrics, behind its router.  Each request is     *)
(* answered under one outcome of the monitoring calls; what router would   *)
(* have returned under each of the other outcomes, for the same request,   *)
(* the same table and the same outcomes of every other call, is kept next  *)
(* to it.                                                                  *)

CloudWatchFaults == {NilErr, <<"operation error CloudWatch", "PutMetricData">>}

\* NewClient succeeds or fails; PutMetricData succeeds or fails
MetricOutcomes ==
    {[metricErr |-> e, cwFault |-> f] : e \in ConfigErrors, f \in CloudWatchFaults}

\* the requests sent to the build with metrics: one for each case of the
\* dispatch, and two that a handler turns away before it makes a client
MonitoredRequests ==
    {[method |-> m, path |-> ShortenPath] : m \in {MethodPost, "PUT"}}
    \cup {[method |-> MethodGet, path |-> p] :
             p \in {Slash, StatsPrefix} \cup {Slash \o c : c \in GeneratedCodes}
                   \cup {StatsPrefix \o c : c \in GeneratedCodes}}

\* one request handled by router of the build with metrics
RouteMonitored ==
    \E req \in MonitoredRequests, oc \in RouterOutcomes, m \in MetricOutcomes :
      \* the body and the random bytes are read by ShortenURL alone
      \E body \in IF req.method = MethodPost /\ req.path = ShortenPath
                  THEN RouterBodies ELSE {b \in RouterBodies : ~b.valid},
         domain \in Domains, env \in {""} :
        LET event == [Method |-> req.method, RawPath |-> req.path, Body |-> body,
                      DomainName |-> domain]
            run(mo) == routerMonitored(table, event, env,
                           [cfgErr |-> oc.cfgErr, rnd |-> oc.rnd, t1 |-> now, t2 |-> now,
                            putFault |-> oc.putFault, getFault |-> oc.getFault,
                            metricErr |-> mo.metricErr, cwFault |-> mo.cwFault])
            r == run(m)
            stored == r.response.StatusCode = StatusCreated
            key == IF stored THEN GenerateShortCode(codeLength, oc.rnd).code ELSE <<>>
        IN  /\ BagCardinality(tasks) < MaxMonitoredTasks
            /\ oc.rnd # [err |-> NilErr, bytes |-> <<0, 0, 0, 0, 0>>] =>
                   (req.method = MethodPost /\ req.path = ShortenPath /\ body.valid
                        /\ JsonUnmarshal(body).URL # "")
            /\ table' = r.tbl
            /\ tasks' = Launch(IF stored THEN Supersede(tasks, key) ELSE tasks,
                               r.spawned, r)
            /\ resp' = Returned(r)
            /\ last' = [Obs("routerMonitored", key, "", FALSE, "none",
                            r.calls, r.spawned, r.tbl # table, FALSE)
                        EXCEPT !.route = req]
            /\ permanent' = Remembered(permanent, r.tbl, key)
            /\ call' = [fn |-> "routerMonitored", metrics |-> r.metrics,
                        returned |-> [mo \in MetricOutcomes |-> Returned(run(mo))]]
            /\ UNCHANGED <<now, mock, adapter>>

\* the goroutine of RedirectURL in the build with metrics: an error of
\* IncrementClickCount is logged and recorded as a metric
RunIncrementMonitored ==
    \E t \in BagToSet(tasks), fault \in BackendFaults, m \in MetricOutcomes :
        LET out == IncrementClickCount(table, t.code, fault)
            rec == Record(NewClient(m.metricErr).client,
                          IF out.err # NilErr THEN <<"DynamoDBError">> ELSE <<>>,
                          m.cwFault)
        IN  /\ t.state = "pending"
            /\ table' = out.tbl
            /\ tasks' = Replace(tasks, t,
                            [t EXCEPT !.state = IF out.err = NilErr THEN "done" ELSE "failed",
                                      !.applied = IF out.err = NilErr THEN "current" ELSE "no"])
            /\ resp' = NoResponse
            /\ last' = Obs("increment", t.code, "", FALSE, Injected(NilErr, NilErr, fault),
                           <<"IncrementClickCount">>, <<>>, out.tbl # table,
                           out.err # NilErr)
            /\ call' = [fn |-> "IncrementClickCount", metrics |-> rec.sent]
            /\ UNCHANGED <<now, permanent, mock, adapter>>

NextMonitored ==
    \/ RouteMonitored
    \/ RunIncrementMonitored

SpecMonitored == Init /\ [][NextMonitored]_vars

----------------------------------------------------------------------------
(* pkg/database/mock_dynamodb.go: MockDynamoDB called from several         *)
(* goroutines, failure injection off (SetFailNext is never called).  Each  *)
(* method is a sequence of steps: read failNext, take the mutex, act on    *)
(* the map, release the mutex and return.  Next to the mock, the same      *)
(* calls are made on the DynamoDB table, each at the moment the mock       *)
(* touches its map; expected is what the table answered.                   *)

MockCodes == RequestCodes

\* the items CreateURL is given: with and without an expiration
MockItems ==
    {[ShortCode |-> c, OriginalURL |-> "https://a.example/x",
      CreatedAt |-> FormatRFC3339(StartTime), Expiration |-> 0, ClickCount |-> 0] :
        c \in GeneratedCodes}
    \cup {[ShortCode |-> c, OriginalURL |-> "https://b.example/y",
           CreatedAt |-> FormatRFC3339(StartTime),
           Expiration |-> StartTime + SecondsPerDay, ClickCount |-> 0] :
             c \in GeneratedCodes}

\* faulty variant of CanAcquire: the mutex excludes nobody
CanAcquireAlways(m, op) == TRUE

\* m.mutex.RLock() in GetURL: no goroutine holds Lock; m.mutex.Lock() in
\* CreateURL and IncrementClickCount: no goroutine holds Lock or RLock
CanAcquire(m, op) ==
    IF op = "GetURL" THEN m.writer = 0
    ELSE m.writer = 0 /\ m.readers = {}

\* the copy of a URLItem that CreateURL stores and GetURL returns
CopyItem(urlItem) ==
    [ShortCode |-> urlItem.ShortCode, OriginalURL |-> urlItem.OriginalURL,
     CreatedAt |-> urlItem.CreatedAt, Expiration |-> urlItem.Expiration,
     ClickCount |-> urlItem.ClickCount]

MockSet(t, c) == [mock EXCEPT !.calls[t] = c]

\* a goroutine calls CreateURL, GetURL or IncrementClickCount
MockCall ==
    \E t \in Threads, op \in {"CreateURL", "GetURL", "IncrementClickCount"},
       code \in MockCodes :
      \E urlItem \in IF op = "CreateURL"
                     THEN {i \in MockItems : i.ShortCode = code} ELSE {NoItem} :
        /\ mock.calls[t].pc \in {"idle", "done"}
        /\ op = "IncrementClickCount" =>
               \A k \in DOMAIN mock.urls : mock.urls[k].ClickCount < MaxClicks
        /\ mock' = MockSet(t, [IdleMockCall EXCEPT !.pc = "check", !.op = op,
                                                   !.code = code, !.urlItem = urlItem])
        /\ UNCHANGED <<table, now, tasks, resp, last, permanent, call, adapter>>

\* if m.failNext { m.failNext = false; return error }
MockCheckFailNext ==
    \E t \in Threads :
        LET c == mock.calls[t]
            failed == [err |-> <<"mock error">>, urlItem |-> NoItem]
        IN  /\ c.pc = "check"
            /\ mock' = IF mock.failNext
                       THEN [MockSet(t, [c EXCEPT !.pc = "done", !.result = failed,
                                                  !.expected = failed])
                             EXCEPT !.failNext = FALSE]
                       ELSE MockSet(t, [c EXCEPT !.pc = "locking"])
            /\ UNCHANGED <<table, now, tasks, resp, last, permanent, call, adapter>>

\* m.mutex.RLock() or m.mutex.Lock()
MockLock ==
    \E t \in Threads :
        LET c == mock.calls[t]
        IN  /\ c.pc = "locking"
            /\ CanAcquire(mock, c.op)
            /\ mock' = IF c.op = "GetURL"
                       THEN [MockSet(t, [c EXCEPT !.pc = "map"])
                             EXCEPT !.readers = @ \cup {t}]
                       ELSE [MockSet(t, [c EXCEPT !.pc = "map"])
                             EXCEPT !.writer = t]
            /\ UNCHANGED <<table, now, tasks, resp, last, permanent, call, adapter>>

\* m.urls[urlItem.ShortCode] = &model.URLItem{...}
MockStoreItem ==
    \E t \in Threads :
        LET c == mock.calls[t]
            ref == CreateURL(table, c.urlItem, NilErr)
        IN  /\ c.pc = "map"
            /\ c.op = "CreateURL"
            /\ mock' = [MockSet(t, [c EXCEPT !.pc = "unlocking",
                                             !.result = NoResult,
                                             !.expected = [NoResult EXCEPT !.err = ref.err]])
                        EXCEPT !.urls = MapPut(@, c.code, CopyItem(c.urlItem))]
            /\ table' = ref.tbl
            /\ UNCHANGED <<now, tasks, resp, last, permanent, call, adapter>>

\* urlItem, exists := m.urls[code] in GetURL, and the copy it returns
MockLookup ==
    \E t \in Threads :
        LET c == mock.calls[t]
            ref == GetURL(table, c.code, NilErr)
            result == IF c.code \in DOMAIN mock.urls
                      THEN [err |-> NilErr, urlItem |-> CopyItem(mock.urls[c.code])]
                      ELSE [err |-> <<"URL not found", "for code">>, urlItem |-> NoItem]
        IN  /\ c.pc = "map"
            /\ c.op = "GetURL"
            /\ mock' = MockSet(t, [c EXCEPT !.pc = "unlocking", !.result = result,
                                            !.expected = ref])
            /\ UNCHANGED <<table, now, tasks, resp, last, permanent, call, adapter>>

\* urlItem, exists := m.urls[code] in IncrementClickCount, and the read of
\* urlItem.ClickCount that begins urlItem.ClickCount++
MockLoadCount ==
    \E t \in Threads :
        LET c == mock.calls[t]
            ref == IncrementClickCount(table, c.code, NilErr)
        IN  /\ c.pc = "map"
            /\ c.op = "IncrementClickCount"
            /\ mock' = IF c.code \in DOMAIN mock.urls
                       THEN MockSet(t, [c EXCEPT !.pc = "adding",
                                                 !.count = mock.urls[c.code].ClickCount])
                       ELSE MockSet(t, [c EXCEPT
                                !.pc = "unlocking",
                                !.result = [NoResult EXCEPT
                                              !.err = <<"URL not found", "for code">>],
                                !.expected = [NoResult EXCEPT !.err = ref.err]])
            /\ UNCHANGED <<table, now, tasks, resp, last, permanent, call, adapter>>

\* the write that ends urlItem.ClickCount++ (urlItem points into the map)
MockStoreCount ==
    \E t \in Threads :
        LET c == mock.calls[t]
            ref == IncrementClickCount(table, c.code, NilErr)
        IN  /\ c.pc = "adding"
            /\ mock' = [MockSet(t, [c EXCEPT !.pc = "unlocking", !.result = NoResult,
                                             !.expected = [NoResult EXCEPT !.err = ref.err]])
                        EXCEPT !.urls = IF c.code \in DOMAIN @
                                        THEN [@ EXCEPT ![c.code].ClickCount = c.count + 1]
                                        ELSE @]
            /\ table' = ref.tbl
            /\ UNCHANGED <<now, tasks, resp, last, permanent, call, adapter>>

\* the deferred m.mutex.RUnlock() or m.mutex.Unlock(), and the return
MockUnlock ==
    \E t \in Threads :
        LET c == mock.calls[t]
        IN  /\ c.pc = "unlocking"
            /\ mock' = [MockSet(t, [c EXCEPT !.pc = "done"])
                        EXCEPT !.readers = @ \ {t},
                               !.writer = IF @ = t THEN 0 ELSE @]
            /\ UNCHANGED <<table, now, tasks, resp, last, permanent, call, adapter>>

NextMock ==
    \/ MockCall
    \/ MockCheckFailNext
    \/ MockLock
    \/ MockStoreItem
    \/ MockLookup
    \/ MockLoadCount
    \/ MockStoreCount
    \/ MockUnlock

SpecMock == Init /\ [][NextMock]_vars

----------------------------------------------------------------------------
(* pkg/database/dynamodb.go: the DynamoDB adapter called from several      *)
(* goroutines.  Every method begins with d.GetClient, which reads and      *)
(* writes d.client without synchronisation: each read and each write of    *)
(* the field is a step of its own, and the steps of the goroutines         *)
(* interleave in every order.                                              *)

AdapterSet(t, c) == [adapter EXCEPT !.calls[t] = c]

\* a goroutine calls CreateURL, GetURL or IncrementClickCount
AdapterCall ==
    \E t \in Threads, op \in {"CreateURL", "GetURL", "IncrementClickCount"} :
        /\ adapter.calls[t].pc \in {"idle", "done"}
        /\ op = "IncrementClickCount" =>
               \A k \in DOMAIN table : table[k]["clickCount"] < MaxClicks
        /\ adapter' = AdapterSet(t, [IdleAdapterCall EXCEPT !.pc = "check", !.op = op])
        /\ UNCHANGED <<table, now, tasks, resp, last, permanent, call, mock>>

\* GetClient: if d.client != nil
AdapterCheck ==
    \E t \in Threads :
        LET c == adapter.calls[t]
        IN  /\ c.pc = "check"
            /\ adapter' = AdapterSet(t, [c EXCEPT !.pc = IF adapter.client # NilClient
                                                         THEN "returning"
                                                         ELSE "loading"])
            /\ UNCHANGED <<table, now, tasks, resp, last, permanent, call, mock>>

\* GetClient: cfg, err := config.LoadDefaultConfig(ctx)
AdapterLoadConfig ==
    \E t \in Threads, cfgErr \in ConfigErrors :
        LET c == adapter.calls[t]
        IN  /\ c.pc = "loading"
            /\ adapter' = AdapterSet(t, IF cfgErr # NilErr
                                        THEN [c EXCEPT !.pc = "done", !.err = cfgErr]
                                        ELSE [c EXCEPT !.pc = "storing"])
            /\ UNCHANGED <<table, now, tasks, resp, last, permanent, call, mock>>

\* GetClient: d.client = dynamodb.NewFromConfig(cfg)
AdapterStore ==
    \E t \in Threads :
        LET c == adapter.calls[t]
        IN  /\ c.pc = "storing"
            /\ adapter' = [AdapterSet(t, [c EXCEPT !.pc = "returning"])
                           EXCEPT !.built = @ + 1, !.client = adapter.built + 1]
            /\ UNCHANGED <<table, now, tasks, resp, last, permanent, call, mock>>

\* GetClient: return d.client, nil
AdapterReturn ==
    \E t \in Threads :
        LET c == adapter.calls[t]
        IN  /\ c.pc = "returning"
            /\ adapter' = AdapterSet(t, [c EXCEPT !.pc = "using",
                                                  !.client = adapter.client])
            /\ UNCHANGED <<table, now, tasks, resp, last, permanent, call, mock>>

\* client.PutItem, client.GetItem or client.UpdateItem with the client that
\* GetClient returned
AdapterUse ==
    \E t \in Threads, fault \in BackendFaults :
        \E urlItem \in {i \in MockItems : i.Expiration = 0}, code \in GeneratedCodes :
            LET c == adapter.calls[t]
                out == CASE c.op = "CreateURL" -> CreateURL(table, urlItem, fault)
                         [] c.op = "GetURL" ->
                              [err |-> GetURL(table, code, fault).err, tbl |-> table]
                         [] OTHER -> IncrementClickCount(table, code, fault)
            IN  /\ c.pc = "using"
                /\ table' = out.tbl
                /\ adapter' = AdapterSet(t, [c EXCEPT !.pc = "done", !.err = out.err])
                /\ UNCHANGED <<now, tasks, resp, last, permanent, call, mock>>

NextAdapter ==
    \/ AdapterCall
    \/ AdapterCheck
    \/ AdapterLoadConfig
    \/ AdapterStore
    \/ AdapterReturn
    \/ AdapterUse

SpecAdapter == Init /\ [][NextAdapter]_vars

----------------------------------------------------------------------------
(* Properties *)

\* the goroutines launched by redirects that read the record now stored
\* under code c, and how many there are (one per 302 since it was created)
Fresh(c) == {t \in BagToSet(tasks) : t.code = c /\ ~t.stale}

FreshCount(c) == SumCopies(Fresh(c), tasks)

\* C1: when ShortenURL has returned 201 with the short URL base + "/" + code,
\* a get on that code returns a record whose originalURL is the submitted
\* url and whose clickCount is 0.
C1_ShortenThenGet ==
    (last.op = "shorten" /\ resp.StatusCode = StatusCreated) =>
        LET code == LastSegment(resp.Body["short_url"])
            got == GetURL(table, code, NilErr)
        IN  /\ code = last.key
            /\ got.err = NilErr
            /\ got.urlItem.OriginalURL = last.url
            /\ got.urlItem.ClickCount = 0

\* a 201 for a code whose earlier record had been clicked
C1_Witness ==
    /\ last.op = "shorten"
    /\ resp.StatusCode = StatusCreated
    /\ \E t \in BagToSet(tasks) : t.code = last.key /\ t.applied = "old"
    /\ GetURL(table, LastSegment(resp.Body["short_url"]), NilErr).urlItem.OriginalURL
           = last.url

\* C2: once every increment launched by the N redirects that read a record
\* has completed successfully (and nothing else has incremented it), the
\* record's clickCount is its value before them, 0 at creation, plus N.
C2_NoLostIncrement ==
    \A c \in DOMAIN table :
        ( /\ \A t \in Fresh(c) : t.state = "done"
          /\ \A t \in BagToSet(tasks) : ~(t.code = c /\ t.stale /\ t.applied = "current") )
        => table[c]["clickCount"] = FreshCount(c)

\* two redirects of one record, both increments done
C2_Witness ==
    \E c \in DOMAIN table :
        /\ FreshCount(c) = 2
        /\ \A t \in Fresh(c) : t.state = "done"
        /\ table[c]["clickCount"] = 2

\* C3: a record's clickCount never exceeds the number of redirects that
\* returned 302 for its code since the record was created.
C3_ClicksAtMostRedirects ==
    \A c \in DOMAIN table : table[c]["clickCount"] <= FreshCount(c)

\* C4: no step lowers the clickCount of a record that stays in the table.
C4_ClickCountNeverDecreases ==
    [][\A c \in DOMAIN table \cap DOMAIN table' :
           table'[c]["clickCount"] >= table[c]["clickCount"]]_vars

\* C5: no step changes the originalURL, createdAt or expiration of a record
\* that stays in the table.
C5_RecordCreatedOnce ==
    [][\A c \in DOMAIN table \cap DOMAIN table' :
           /\ UnmarshalMap(table'[c]).OriginalURL = UnmarshalMap(table[c]).OriginalURL
           /\ UnmarshalMap(table'[c]).CreatedAt = UnmarshalMap(table[c]).CreatedAt
           /\ UnmarshalMap(table'[c]).Expiration = UnmarshalMap(table[c]).Expiration]_vars

Called(name) == \E i \in 1..Len(last.calls) : last.calls[i] = name

\* the step just taken is a RedirectURL whose get read the record of its code
RedirectRead ==
    /\ last.op = "redirect"
    /\ last.injected = "none"
    /\ last.key \in DOMAIN table

\* C6: a RedirectURL whose get read the record of its code returns 302 with
\* an empty body, a nil error and a Location header equal to the
\* originalURL of that record.
C6_RedirectFound ==
    RedirectRead =>
        /\ resp.StatusCode = StatusFound
        /\ resp.Body = EmptyBody
        /\ resp.Headers = [x \in {"Location"} |-> table[last.key]["originalURL"]]
        /\ resp.err = NilErr

\* a 302 for a record that had been clicked before
C6_Witness ==
    /\ RedirectRead
    /\ table[last.key]["clickCount"] >= 1
    /\ resp.StatusCode = StatusFound

\* C7: once its get has succeeded RedirectURL returns 302 without the
\* increment having run: in the state where it returns, the increment it
\* launched is still pending and the table is as it was; and every
\* increment, whether it later ran, failed or was abandoned, belongs to a
\* redirect that returned 302.
C7_ResponseDoesNotWait ==
    /\ RedirectRead =>
          /\ resp.StatusCode = StatusFound
          /\ ~last.wrote
          /\ \E t \in Fresh(last.key) : t.state = "pending"
    /\ \A t \in BagToSet(tasks) : t.response.StatusCode = StatusFound

\* the increment of a redirect was abandoned, the redirect had returned 302
C7_Witness ==
    \E t \in BagToSet(tasks) :
        /\ t.state = "abandoned"
        /\ t.response.StatusCode = StatusFound
        /\ t.code \in DOMAIN table
        /\ table[t.code]["clickCount"] = 0

\* C8: the response of a redirect whose increment has succeeded or failed is
\* 302 with a nil error and the Location of the record it read, and a step
\* in which IncrementClickCount fails leaves the table unchanged.
C8_IncrementFailureNotSurfaced ==
    /\ \A t \in BagToSet(tasks) :
          t.state \in {"done", "failed"} =>
              /\ t.response.StatusCode = StatusFound
              /\ t.response.err = NilErr
              /\ DOMAIN t.response.Headers = {"Location"}
              /\ (~t.stale /\ t.code \in DOMAIN table) =>
                     t.response.Headers["Location"] = table[t.code]["originalURL"]
    /\ (last.op = "increment" /\ last.failed) => ~last.wrote

\* the increment of a live record has just failed
C8_Witness ==
    /\ last.op = "increment"
    /\ last.failed
    /\ last.key \in DOMAIN table
    /\ \E t \in Fresh(last.key) :
           t.state = "failed" /\ t.response.StatusCode = StatusFound

\* the step just taken is a RedirectURL or GetURLStats for a code that has
\* no record
LookupOfMissing ==
    /\ last.op \in {"redirect", "stats"}
    /\ last.key # <<>>
    /\ last.key \notin DOMAIN table

ShortenOfBadRequest ==
    /\ last.op = "shorten"
    /\ (~last.valid \/ last.url = "")

\* C10 as stated: ShortenURL returns 400 when the body does not parse or the
\* url is empty or missing; no code is generated and no record is written.
C10_BadRequestIs400 ==
    ShortenOfBadRequest =>
        /\ resp.StatusCode = StatusBadRequest
        /\ ~Called("GenerateShortCode")
        /\ ~Called("CreateURL")
        /\ ~last.wrote

\* C10: ShortenURL returns 400 when the body does not parse or the url is
\* empty or missing, provided GetClient succeeded, which it calls first;
\* when GetClient fails the answer is 500.  In every case no code is
\* generated and no record is written.
C10_BadRequestIs400AfterClient ==
    ShortenOfBadRequest =>
        /\ resp.StatusCode = IF last.injected = "config"
                             THEN StatusInternalServerError ELSE StatusBadRequest
        /\ DOMAIN resp.Body = {"error"}
        /\ ~Called("GenerateShortCode")
        /\ ~Called("CreateURL")
        /\ ~last.wrote

\* a 400 for a body that parses but has no url, while a record is stored
C10_Witness ==
    /\ ShortenOfBadRequest
    /\ last.valid
    /\ resp.StatusCode = StatusBadRequest
    /\ table # EmptyMap

\* the step just taken is a handler whose store operation (CreateURL for
\* ShortenURL, GetURL for the other two) was reached and failed at the
\* backend
StoreOperationFailed ==
    /\ last.injected = "store"
    /\ \/ last.op = "shorten" /\ last.valid /\ last.url # ""
       \/ last.op \in {"redirect", "stats"} /\ last.key # <<>>

StatusCodes ==
    {StatusOK, StatusCreated, StatusFound, StatusBadRequest, StatusNotFound,
     StatusInternalServerError}

\* C12: whatever the request and whatever the outcome of the calls made,
\* router, each handler it calls and RedirectURL called directly return a
\* nil error and a status code among 200, 201, 302, 400, 404 and 500.
C12_EveryOutcomeConverted ==
    last.op \in {"router", "redirect"} =>
        /\ resp.err = NilErr
        /\ resp.StatusCode \in StatusCodes

\* a request that router gave to ShortenURL, where the random source failed
C12_Witness ==
    /\ last.op = "router"
    /\ last.injected = "rand"
    /\ Called("GenerateShortCode")
    /\ resp.StatusCode = StatusInternalServerError
    /\ resp.err = NilErr

\* the step just taken is a GetURLStats whose get read the record of its code
StatsRead ==
    /\ last.op = "stats"
    /\ last.injected = "none"
    /\ last.key \in DOMAIN table

C14_NoExpirationNeverRemoved ==
    /\ last.op \in {"shorten", "redirect", "stats", "increment"} =>
          (last.wrote => last.op \in {"shorten", "increment"} /\ table # EmptyMap)
    /\ \A c \in permanent : GetURL(table, c, NilErr).err = NilErr

\* C15: a record is removed only when its expiration lies before the
\* current time; under a fair TTL sweep a record whose expiration has passed
\* is eventually removed, leaving its code without a record; and RedirectURL
\* and GetURLStats for a code without a record return 404.
C15_ExpiresAutomatically ==
    /\ [][\A c \in DOMAIN table : c \notin DOMAIN table' => TTLExpired(table, c, now)]_vars
    /\ \A c \in GeneratedCodes : TTLExpired(table, c, now) ~> (c \notin DOMAIN table)
    /\ []((LookupOfMissing /\ last.injected = "none") => resp.StatusCode = StatusNotFound)

\* C16: RedirectURL and GetURLStats answer 404 for a record whose expiration
\* lies before the current time and that the sweep has not yet removed, as
\* they do for a record already removed.
C16_ExpiredIsNotFound ==
    ( /\ last.op \in {"redirect", "stats"}
      /\ last.injected = "none"
      /\ TTLExpired(table, last.key, now) )
    => resp.StatusCode = StatusNotFound

\* C17: the expiration of every stored record is zero or exactly its own
\* createdAt plus a whole number of days, the expire_in_days of its request.
C17_ExpirationIsCreatedAtPlusDays ==
    \A c \in DOMAIN table :
        LET urlItem == UnmarshalMap(table[c])
        IN  \/ urlItem.Expiration = 0
            \/ \E d \in DaysValues :
                   urlItem.Expiration = ParseRFC3339(urlItem.CreatedAt) + d * SecondsPerDay

\* C18: CalculateExpirationTime returns 0, no expiration, for zero days and
\* for every negative number of days.
C18_NoExpirationForNonPositiveDays ==
    (call.fn = "CalculateExpirationTime" /\ call.days <= 0) => call.result = 0

\* zero days, in a location other than UTC
C18_Witness ==
    /\ call.fn = "CalculateExpirationTime"
    /\ call.days = 0
    /\ call.loc # UTC
    /\ call.result = 0

\* C19 as stated: for every days > 0, CalculateExpirationTime returns the
\* clock reading of the call plus days * 86400 seconds.
C19_NowPlusDays ==
    (call.fn = "CalculateExpirationTime" /\ call.days > 0) =>
        call.result = call.t + call.days * SecondsPerDay

\* C19: for every days > 0, CalculateExpirationTime returns the clock
\* reading of the call plus days * 86400 seconds when the offset of the
\* process's location from UTC is the same at both instants (always so in
\* UTC); when the offset changes in between, the result is that sum or
\* differs from it by the change of the offset, and it is always later than
\* the reading.
C19_NowPlusDaysAtSameOffset ==
    (call.fn = "CalculateExpirationTime" /\ call.days > 0) =>
        LET sum == call.t + call.days * SecondsPerDay
        IN  /\ Offset(call.loc, call.t) = Offset(call.loc, sum) => call.result = sum
            /\ call.result - sum \in {0, Offset(call.loc, call.t) - Offset(call.loc, sum)}
            /\ call.result > call.t

\* two days from a reading before the transition, in UTC
C19_Witness ==
    /\ call.fn = "CalculateExpirationTime"
    /\ call.days = 2
    /\ call.loc = UTC
    /\ call.t = StartTime + 1
    /\ call.result = call.t + 2 * SecondsPerDay

Alphabet ==
    { "a","b","c","d","e","f","g","h","i","j","k","l","m",
      "n","o","p","q","r","s","t","u","v","w","x","y","z",
      "A","B","C","D","E","F","G","H","I","J","K","L","M",
      "N","O","P","Q","R","S","T","U","V","W","X","Y","Z",
      "0","1","2","3","4","5","6","7","8","9" }

\* C20: for every length >= 0 and every buffer of random bytes,
\* GenerateShortCode returns exactly length characters, each one a letter
\* a-z or A-Z or a digit; the length ShortenURL asks for is 5.
C20_CodeLengthAndAlphabet ==
    /\ (call.fn = "GenerateShortCode" /\ call.rnd.err = NilErr) =>
          /\ call.result.err = NilErr
          /\ Len(call.result.code) = call.length
          /\ \A i \in 1..Len(call.result.code) : call.result.code[i] \in Alphabet
    /\ codeLength = 5
    /\ \A c \in GeneratedCodes : Len(c) = 5

\* a one-character code from the largest byte value
C20_Witness ==
    /\ call.fn = "GenerateShortCode"
    /\ call.length = 1
    /\ call.rnd.bytes = <<255>>
    /\ Len(call.result.code) = 1
    /\ call.result.code[1] \in Alphabet

\* the byte values rand.Read can deliver that GenerateShortCode turns into
\* the character c
ByteValuesFor(c) ==
    { b \in ByteValues :
        GenerateShortCode(1, [err |-> NilErr, bytes |-> <<b>>]).code = <<c>> }

\* C21: a generated character is drawn uniformly: every character of the
\* 62-character alphabet is the image of as many of the 256 byte values as
\* the character that was generated
C21_UniformOverAlphabet ==
    (call.fn = "GenerateShortCode" /\ call.rnd.err = NilErr /\ call.length = 1) =>
        \A c \in Alphabet :
            Cardinality(ByteValuesFor(c))
                = Cardinality(ByteValuesFor(call.result.code[1]))

\* the handler router gave the request to, "" when it gave it to none
Dispatched == IF last.calls = <<>> THEN "" ELSE last.calls[1]

\* C22: for every method and path, router gives POST /shorten to ShortenURL,
\* a GET whose path starts with /stats/ to GetURLStats, any other GET whose
\* path is not / to RedirectURL, and answers every other request with 404
\* without a call to the store; exactly one of the four cases applies.
C22_RouterDispatch ==
    last.op = "router" =>
        LET method == last.route.method
            path == last.route.path
            toShorten == method = MethodPost /\ path = ShortenPath
            toStats == method = MethodGet /\ HasPrefix(path, StatsPrefix)
            toRedirect == /\ method = MethodGet
                          /\ ~HasPrefix(path, StatsPrefix)
                          /\ path # Slash
            toNone == ~(toShorten \/ toStats \/ toRedirect)
        IN  /\ toShorten => Dispatched = "ShortenURL"
            /\ toStats => Dispatched = "GetURLStats"
            /\ toRedirect => Dispatched = "RedirectURL"
            /\ toNone => /\ Dispatched = ""
                         /\ resp.StatusCode = StatusNotFound
                         /\ ~last.wrote
                         /\ last.spawned = <<>>
                         /\ ~Called("GetClient")
                         /\ ~Called("CreateURL") /\ ~Called("GetURL")
            /\ Cardinality({c \in {"shorten", "stats", "redirect", "none"} :
                              \/ c = "shorten" /\ toShorten
                              \/ c = "stats" /\ toStats
                              \/ c = "redirect" /\ toRedirect
                              \/ c = "none" /\ toNone}) = 1

\* GET /stats/aaaaa, a path that both the stats and the redirect pattern fit,
\* went to GetURLStats
C22_Witness ==
    /\ last.op = "router"
    /\ last.route.method = MethodGet
    /\ HasPrefix(last.route.path, StatsPrefix)
    /\ Len(last.route.path) > Len(StatsPrefix)
    /\ Dispatched = "GetURLStats"

\* C23: a GET redirect request whose code, the path after its leading "/",
\* is empty is answered with 400 and without a get, both when RedirectURL is
\* called directly and when the request comes through router.
C23_EmptyCodeIs400 ==
    LET direct == last.op = "redirect" /\ last.key = <<>>
        routed == /\ last.op = "router"
                  /\ last.route.method = MethodGet
                  /\ HasPrefix(last.route.path, Slash)
                  /\ TrimPrefix(last.route.path, Slash) = <<>>
    IN  (direct \/ routed) =>
            /\ resp.StatusCode = StatusBadRequest
            /\ ~Called("GetURL")

\* C24: the short URL ShortenURL returns is BASE_URL + "/" + code when
\* BASE_URL is set to a non-empty value, whatever the host of the request,
\* and "https://" + host + "/" + code when it is unset or empty; code is the
\* key under which the record was stored.
C24_BaseURLResolution ==
    (last.op = "router" /\ resp.StatusCode = StatusCreated) =>
        LET shortURL == resp.Body["short_url"]
            code == last.key
        IN  /\ last.base.env # "" => shortURL = <<last.base.env>> \o Slash \o code
            /\ last.base.env = "" =>
                   shortURL = <<"https://", last.base.host>> \o Slash \o code
            /\ code \in DOMAIN table
            /\ table[code]["originalURL"] = last.url

\* a request to a host other than the one BASE_URL names got a short URL
\* under BASE_URL
C24_Witness ==
    /\ last.op = "router"
    /\ resp.StatusCode = StatusCreated
    /\ last.base.env = "https://sho.rt"
    /\ last.base.host \in Domains
    /\ resp.Body["short_url"] = <<"https://sho.rt">> \o Slash \o last.key

\* C25: IncrementClickCount on a code that has no record fails with a
\* not-found error and leaves the table unchanged, so that an increment
\* launched by a redirect and run after the TTL process removed the record
\* does not create it again.
C25_IncrementOfMissingIsNotFound ==
    [][(/\ last'.op = "increment"
        /\ last'.injected = "none"
        /\ last'.key \notin DOMAIN table)
       => /\ last'.failed
          /\ ErrorContains(IncrementClickCount(table, last'.key, NilErr).err,
                           "URL not found")
          /\ table' = table]_vars

\* the code of the RedirectURL invocation just made, directly or through
\* router
RedirectedCode ==
    IF last.op = "redirect" THEN last.key ELSE TrimPrefix(last.route.path, Slash)

RedirectInvoked ==
    \/ last.op = "redirect"
    \/ last.op = "router" /\ Dispatched = "RedirectURL"

\* C26: a RedirectURL that returns 302 launches exactly one
\* IncrementClickCount, for the requested code and after its get succeeded;
\* a RedirectURL that returns 400, 404 or 500 launches none.
C26_IncrementLaunchedOn302Only ==
    RedirectInvoked =>
        /\ resp.StatusCode \in {StatusFound, StatusBadRequest, StatusNotFound,
                                StatusInternalServerError}
        /\ resp.StatusCode = StatusFound =>
              /\ last.spawned = <<RedirectedCode>>
              /\ Called("GetURL")
              /\ RedirectedCode \in DOMAIN table
              /\ \E t \in BagToSet(tasks) :
                    /\ t.code = RedirectedCode
                    /\ t.state = "pending"
                    /\ t.response.StatusCode = StatusFound
        /\ resp.StatusCode # StatusFound => last.spawned = <<>>

\* a redirect returned 302 and its increment is pending
C26_Witness ==
    /\ RedirectInvoked
    /\ resp.StatusCode = StatusFound
    /\ last.spawned = <<RedirectedCode>>
    /\ \E t \in BagToSet(tasks) : t.code = RedirectedCode /\ t.state = "pending"

\* the step just taken made a get, from RedirectURL or GetURLStats, called
\* directly or through router
GetMade ==
    /\ \/ last.op \in {"redirect", "stats"}
       \/ last.op = "router" /\ Dispatched \in {"RedirectURL", "GetURLStats"}
    /\ Called("GetURL")

\* the code that get looked up
GetCode ==
    IF last.op \in {"redirect", "stats"} THEN last.key
    ELSE IF Dispatched = "GetURLStats" THEN TrimPrefix(last.route.path, StatsPrefix)
    ELSE TrimPrefix(last.route.path, Slash)

\* C27: a get that fails is classified exactly: the handler returns 404 if
\* and only if the lookup went through and the table holds no record for
\* the code, and 500 when the backend failed, whatever the text of the
\* backend's error.
C27_GetFailureClassified ==
    GetMade =>
        LET backendFailed == last.injected = "store"
            missing == ~backendFailed /\ GetCode \notin DOMAIN table
        IN  /\ backendFailed => resp.StatusCode = StatusInternalServerError
            /\ (resp.StatusCode = StatusNotFound) <=> missing

\* the results of a call on the mock and of the same call on the table
\* agree: both succeed or both fail, and they return the same item
SameResult(a, b) ==
    /\ (a.err = NilErr) <=> (b.err = NilErr)
    /\ a.urlItem = b.urlItem

C29_ClientBuiltOnce ==
    /\ adapter.built <= 1
    /\ \A t \in Threads :
          (adapter.calls[t].pc \in {"using", "done"}
              /\ adapter.calls[t].client # NilClient) =>
                 adapter.calls[t].client = 1

\* C30: for one request, one table and one outcome of every other call,
\* router of the build with metrics returns the same status code, headers,
\* body and error whether the metrics client was made or not and whether
\* PutMetricData succeeded or failed.
C30_MetricsDoNotChangeResponse ==
    call.fn = "routerMonitored" =>
        /\ \A m1, m2 \in MetricOutcomes : call.returned[m1] = call.returned[m2]
        /\ \A m \in MetricOutcomes : resp = call.returned[m]
        /\ resp.StatusCode \in StatusCodes

\* a redirect answered 302 and no metric was recorded: the metrics client
\* could not be made or PutMetricData failed
C30_Witness ==
    /\ call.fn = "routerMonitored"
    /\ call.metrics = <<>>
    /\ resp.StatusCode = StatusFound
    /\ Dispatched = "RedirectURL"
    /\ \E m \in MetricOutcomes :
          /\ m.metricErr = NilErr
          /\ call.returned[m].StatusCode = StatusFound

====
